---- MODULE Spec2Model ----
(***************************************************************************)
(* Model of the temporal state resolution of the railway history viewer:   *)
(* DatabaseProvider (loadData, queryDataForYear) and the helper functions  *)
(* buildAltNameMap and normalizeGeometry of DatabaseContext.tsx, and the   *)
(* query effect of MapView.tsx.                                            *)
(*                                                                         *)
(* SQL NULL is modelled by the empty set: a nullable integer column is a   *)
(* set with no element (NULL) or exactly one element (the value).  A       *)
(* comparison with NULL is never true, as in a CASE WHEN condition.        *)
(***************************************************************************)
EXTENDS Integers, Sequences, FiniteSets, TLC

VARIABLES
    stations_tbl,    \* table stations: station_id -> row
    segments_tbl,    \* table segments: set of segment_id
    events_tbl,      \* table events: set of event rows
    bad_dates,       \* the rows of events whose date text is not a date
    lastQuery,       \* what the last completed queryDataForYear computed
    loadPc,          \* DatabaseProvider: the step loadData is awaiting
    connectionRef,   \* DatabaseProvider: connectionRef.current
    tables,          \* the tables created in the store
    isLoading,       \* DatabaseProvider: isLoading
    error,           \* DatabaseProvider: error
    exposed,         \* DatabaseProvider: the collections set by loadData
    currentYear,     \* MapView: the currentYear prop
    effectDeps,      \* MapView: the dependencies the query effect last ran with
    effectQuery,     \* MapView: the query of the effect whose cleanup is pending
    queries,         \* the queryDataForYear calls of MapView, in issue order
    mv_data,         \* MapView: what setStations/setSegments last received
    names_arg,       \* buildAltNameMap: the argument of the call
    altNames_out,    \* buildAltNameMap: what the call returned
    geometry_raw,    \* normalizeGeometry: the argument of the call
    geometry_out,    \* normalizeGeometry: what the call returned
    unmountPc,       \* DatabaseProvider: mounted, or where its cleanup stands
    connState,       \* the connection loadData opened: none, open or closed
    closedUse,       \* a statement was issued on a closed connection
    mountedLoading,  \* MapView was first mounted while isLoading was true
    mapRef,          \* MapView: mapRef.current holds the map div
    mapInstanceRef,  \* MapView: mapInstanceRef.current
    leaflet,         \* window.L is defined
    initPc,          \* MapView: where the map init effect stands
    layerDeps,       \* MapView: the dependencies the layer effect last ran with
    layers,          \* MapView: the data whose layers are on the map
    showPlanned,     \* MapView: showPlanned
    currentZoom      \* MapView: currentZoom

dataVars == <<stations_tbl, segments_tbl, events_tbl, bad_dates>>

providerVars == <<loadPc, connectionRef, tables, isLoading, error, exposed>>

mapVars == <<currentYear, effectDeps, effectQuery, queries, mv_data>>

fnVars == <<names_arg, altNames_out, geometry_raw, geometry_out>>

unmountVars == <<unmountPc, connState, closedUse>>

leafletVars == <<mountedLoading, mapRef, mapInstanceRef, leaflet, initPc, layerDeps, layers,
                 showPlanned, currentZoom>>

----------------------------------------------------------------------------
(* Bounds of the model *)

MaxYear == 3
MaxEvents == 3
MaxQueries == 3

EventYears == 1..MaxYear

----------------------------------------------------------------------------
(* SQL helpers *)

NULL == {}

Val(x) == CHOOSE v \in x : TRUE

SetMax(S) == CHOOSE m \in S : \A v \in S : v <= m

SetMin(S) == CHOOSE m \in S : \A v \in S : m <= v

\* MAX(...) aggregate: NULL when no row contributes a non-NULL value
SqlMax(S) == IF S = {} THEN NULL ELSE {SetMax(S)}

\* MIN(...) aggregate
SqlMin(S) == IF S = {} THEN NULL ELSE {SetMin(S)}

\* COALESCE(x, d) with a non-NULL last argument
Coalesce(x, d) == IF x # NULL THEN Val(x) ELSE d

\* x = y, x < y as WHEN conditions: true only when x is not NULL
SqlEq(x, y) == x # NULL /\ Val(x) = y

SqlLt(x, y) == x # NULL /\ Val(x) < y

----------------------------------------------------------------------------
(* Program constants *)

\* COALESCE(se.open_year, <created_at year>, 99999)
StationOpenDefault == 99999

\* COALESCE(o.open_year, 0)
SegmentOpenDefault == 0

\* the state_label column is NULL for a row that is dropped from the result
NullLabel == "NULL"

StationEventTypes == {"station_open", "station_close", "electrification"}

SegmentEventTypes == {"segment_open", "segment_close", "electrification"}

\* years the query can be asked for: from below the segment default to after
\* the last event
QueryYears == (SegmentOpenDefault - 1)..(MaxYear + 1)

----------------------------------------------------------------------------
(* queryDataForYear: the station query *)

\* years of the events of one type joined to station sid
StationEventYears(sid, type) ==
    {e.year : e \in {ev \in events_tbl : ev.station_id = {sid} /\ ev.event_type = type}}

\* CTE station_events: one row per station with coordinates
station_events(sid, year) ==
    [station_id |-> sid,
     current_status |-> stations_tbl[sid].current_status,
     created_at |-> stations_tbl[sid].created_at,
     open_year |-> SqlMax(StationEventYears(sid, "station_open")),
     close_year |-> SqlMax(StationEventYears(sid, "station_close")),
     electrified_year |-> SqlMax({y \in StationEventYears(sid, "electrification") : y <= year})]

\* COALESCE(se.open_year, year of se.created_at, 99999)
effective_open_year(se) ==
    IF se.open_year # NULL THEN Val(se.open_year)
    ELSE Coalesce(se.created_at, StationOpenDefault)

\* the CASE with the status override moved above the exclusion rule
station_state_label_status_first(se, year) ==
    IF se.open_year = NULL /\ se.created_at = NULL THEN "planned"
    ELSE IF effective_open_year(se) > year THEN "planned"
    ELSE IF se.current_status = "closed" THEN "closed"
    ELSE IF se.close_year # NULL /\ SqlLt(se.close_year, year) THEN NullLabel
    ELSE IF se.close_year # NULL /\ SqlEq(se.close_year, year) THEN "closed"
    ELSE IF SqlEq(se.electrified_year, year) THEN "electrified"
    ELSE IF SqlEq(se.open_year, year) THEN "new"
    ELSE "existing"

\* the CASE without its ELSE branch: no WHEN matches, the label is NULL
station_state_label_no_else(se, year) ==
    IF se.open_year = NULL /\ se.created_at = NULL THEN "planned"
    ELSE IF effective_open_year(se) > year THEN "planned"
    ELSE IF se.close_year # NULL /\ SqlLt(se.close_year, year) THEN NullLabel
    ELSE IF se.close_year # NULL /\ SqlEq(se.close_year, year) THEN "closed"
    ELSE IF se.current_status = "closed" THEN "closed"
    ELSE IF SqlEq(se.electrified_year, year) THEN "electrified"
    ELSE IF SqlEq(se.open_year, year) THEN "new"
    ELSE NullLabel

\* the CASE with the exclusion rule moved above the planned rules
station_state_label_closure_first(se, year) ==
    IF se.close_year # NULL /\ SqlLt(se.close_year, year) THEN NullLabel
    ELSE IF se.open_year = NULL /\ se.created_at = NULL THEN "planned"
    ELSE IF effective_open_year(se) > year THEN "planned"
    ELSE IF se.close_year # NULL /\ SqlEq(se.close_year, year) THEN "closed"
    ELSE IF se.current_status = "closed" THEN "closed"
    ELSE IF SqlEq(se.electrified_year, year) THEN "electrified"
    ELSE IF SqlEq(se.open_year, year) THEN "new"
    ELSE "existing"

\* the CASE with the closing year already excluded
station_state_label_closing_year_excluded(se, year) ==
    IF se.open_year = NULL /\ se.created_at = NULL THEN "planned"
    ELSE IF effective_open_year(se) > year THEN "planned"
    ELSE IF se.close_year # NULL /\ (SqlLt(se.close_year, year) \/ SqlEq(se.close_year, year))
         THEN NullLabel
    ELSE IF se.current_status = "closed" THEN "closed"
    ELSE IF SqlEq(se.electrified_year, year) THEN "electrified"
    ELSE IF SqlEq(se.open_year, year) THEN "new"
    ELSE "existing"

\* the CASE expression of station_state
station_state_label(se, year) ==
    IF se.open_year = NULL /\ se.created_at = NULL THEN "planned"
    ELSE IF effective_open_year(se) > year THEN "planned"
    ELSE IF se.close_year # NULL /\ SqlLt(se.close_year, year) THEN NullLabel
    ELSE IF se.close_year # NULL /\ SqlEq(se.close_year, year) THEN "closed"
    ELSE IF se.current_status = "closed" THEN "closed"
    ELSE IF SqlEq(se.electrified_year, year) THEN "electrified"
    ELSE IF SqlEq(se.open_year, year) THEN "new"
    ELSE "existing"

\* CTE station_state: station_events plus effective_open_year and state_label
station_state(sid, year) ==
    LET se == station_events(sid, year)
    IN  [station_id |-> sid,
         current_status |-> se.current_status,
         created_at |-> se.created_at,
         open_year |-> se.open_year,
         close_year |-> se.close_year,
         electrified_year |-> se.electrified_year,
         effective_open_year |-> effective_open_year(se),
         state_label |-> station_state_label(se, year)]

\* the final WHERE clause left out
station_row_kept_all(ss) == TRUE

\* the final WHERE clause also leaving out the planned stations
station_row_kept_no_planned(ss) == ss.state_label \notin {NullLabel, "planned"}

\* SELECT ... FROM station_state WHERE state_label IS NOT NULL
station_row_kept(ss) == ss.state_label # NullLabel

\* stations with coordinates (WHERE s.lat IS NOT NULL AND s.lon IS NOT NULL)
LocatedStations == {sid \in DOMAIN stations_tbl : stations_tbl[sid].has_coords}

\* a set as a sequence, in a fixed order of its elements
RECURSIVE SetToSeq(_)
SetToSeq(S) ==
    IF S = {} THEN <<>>
    ELSE LET x == CHOOSE v \in S : TRUE
         IN  <<x>> \o SetToSeq(S \ {x})

\* the rows of the station query, before the final WHERE
StationRows(year) ==
    LET ids == SetToSeq(LocatedStations)
    IN  [i \in 1..Len(ids) |-> station_state(ids[i], year)]

\* stationsForYear: rows.map(row => ({ ..., state: row.state_label }))
stationsForYear(year) ==
    LET kept == SelectSeq(StationRows(year), station_row_kept)
    IN  [i \in 1..Len(kept) |->
            [station_id |-> kept[i].station_id,
             current_status |-> kept[i].current_status,
             state |-> kept[i].state_label]]

----------------------------------------------------------------------------
(* queryDataForYear: the segment query *)

SegmentEventYears(gid, type) ==
    {e.year : e \in {ev \in events_tbl : ev.segment_id = {gid} /\ ev.event_type = type}}

\* CTE open_years: MIN over the segment_open events of the segment
open_years(gid) == SqlMin(SegmentEventYears(gid, "segment_open"))

\* CTE close_years: MIN over the segment_close events of the segment
close_years(gid) == SqlMin(SegmentEventYears(gid, "segment_close"))

\* CTE electrified_years: MAX over the electrification events <= year
electrified_years(gid, year) ==
    SqlMax({y \in SegmentEventYears(gid, "electrification") : y <= year})

\* the CASE expression of the segment query
segment_state_label(o, c, el, year) ==
    IF year < Coalesce(o, SegmentOpenDefault) THEN "planned"
    ELSE IF c # NULL /\ SqlLt(c, year) THEN NullLabel
    ELSE IF c # NULL /\ SqlEq(c, year) THEN "closed"
    ELSE IF SqlEq(el, year) THEN "electrified"
    ELSE IF o # NULL /\ SqlEq(o, year) THEN "new"
    ELSE "existing"

\* one row of the segment query: base LEFT JOIN the three CTEs
segment_row(gid, year) ==
    [segment_id |-> gid,
     open_year |-> open_years(gid),
     close_year |-> close_years(gid),
     electrified_year |-> electrified_years(gid, year),
     state_label |-> segment_state_label(open_years(gid), close_years(gid),
                                         electrified_years(gid, year), year)]

SegmentRows(year) ==
    LET ids == SetToSeq(segments_tbl)
    IN  [i \in 1..Len(ids) |-> segment_row(ids[i], year)]

\* .filter(row => Boolean(row.state_label)): NULL and '' are falsy
segment_row_kept(row) == row.state_label # NullLabel /\ row.state_label # ""

\* segmentsForYear: segmentRows.filter(...).map(...)
segmentsForYear(year) ==
    LET kept == SelectSeq(SegmentRows(year), segment_row_kept)
    IN  [i \in 1..Len(kept) |->
            [segment_id |-> kept[i].segment_id,
             state |-> kept[i].state_label]]

\* CAST(e.date AS DATE) raises a conversion error on a text that is not a
\* date.  The station statement casts the date of every event joined to a
\* station with coordinates, whatever its type
StationStatementRaises ==
    \E e \in bad_dates : \E sid \in LocatedStations : e.station_id = {sid}

\* the CTEs of the segment statement cast the date of every event that has a
\* segment_id and their event type
SegmentStatementRaises ==
    \E e \in bad_dates : e.segment_id # NULL

\* the filter of electrified_years holds the cast in a conjunction with
\* segment_id IS NOT NULL: whether the date of an event without segment_id
\* is cast depends on the order the store evaluates the conjuncts in
SegmentStatementMayRaise ==
    \E e \in bad_dates : e.segment_id = NULL

\* the promise of queryDataForYear rejected with the error of the statement
rejectedResult(year) ==
    [year |-> year,
     rejected |-> TRUE,
     station_state |-> <<>>,
     segment_state |-> <<>>,
     stations |-> <<>>,
     segments |-> <<>>]

\* the result of a query that ran both statements on the loaded store,
\* with the rows of the two statements as they were before filtering
queryResult(year) ==
    [year |-> year,
     rejected |-> FALSE,
     station_state |-> StationRows(year),
     segment_state |-> SegmentRows(year),
     stations |-> stationsForYear(year),
     segments |-> segmentsForYear(year)]

----------------------------------------------------------------------------
(* The loaded data *)

StationIds == {"S1"}

SegmentIds == {"G1"}

CurrentStatuses == {"open", "closed"}

StationRowsOf(ids) ==
    [ids -> [current_status : CurrentStatuses,
             created_at : {NULL} \cup {{y} : y \in EventYears},
             has_coords : {TRUE}]]

\* an event is owned by a station or by a segment
EventsOf(sids, gids) ==
    [event_type : StationEventTypes, year : EventYears,
     station_id : {{s} : s \in sids}, segment_id : {NULL}]
    \cup
    [event_type : SegmentEventTypes, year : EventYears,
     station_id : {NULL}, segment_id : {{g} : g \in gids}]

RECURSIVE SubsetsUpTo(_, _)
SubsetsUpTo(S, n) ==
    IF n = 0 THEN {{}}
    ELSE LET smaller == SubsetsUpTo(S, n - 1)
         IN  smaller \cup {T \cup {x} : T \in smaller, x \in S}

AllTables == {"stations", "station_names", "events", "segments"}

ExposedCollections == {"stations", "stationNames", "events", "segments"}

\* the years the year control of the page is moved between
AppYears == {1, 2}

\* neither helper function has been called
NoCalls ==
    /\ names_arg = NULL
    /\ altNames_out = NULL
    /\ geometry_raw = NULL
    /\ geometry_out = NULL

\* the zoom the map is created with, and the one level above it
InitialZoom == 4

ZoomLevels == {InitialZoom, InitialZoom + 1}

\* MapView before its mount effects have run: no map, no layers; loading
\* tells whether its first render found isLoading true, in which case the
\* render returned the loading notice and not the map div
MapAtMount(loading) ==
    /\ mountedLoading = loading
    /\ mapRef = ~loading
    /\ mapInstanceRef = NULL
    /\ initPc = "pending"
    /\ layerDeps = NULL
    /\ layers = NULL
    /\ showPlanned = FALSE
    /\ currentZoom = InitialZoom

\* DatabaseProvider once loadData has succeeded, MapView not mounted
Loaded ==
    /\ unmountPc = "mounted"
    /\ connState = "open"
    /\ closedUse = FALSE
    /\ MapAtMount(FALSE)
    /\ leaflet = FALSE
    /\ loadPc = "done"
    /\ connectionRef = {"conn"}
    /\ tables = AllTables
    /\ isLoading = FALSE
    /\ error = NULL
    /\ exposed = ExposedCollections
    /\ currentYear = SetMin(AppYears)
    /\ effectDeps = NULL
    /\ effectQuery = NULL
    /\ queries = <<>>
    /\ mv_data = NULL
    /\ NoCalls

\* the events of the loaded data: all owned by the stations or all owned by
\* the segments, at most MaxEvents of them
EventSets(sids, gids) ==
    SubsetsUpTo(EventsOf(sids, {}), MaxEvents)
    \cup SubsetsUpTo(EventsOf({}, gids), MaxEvents)

\* the state once loadData has filled the store
InitResolve ==
    /\ stations_tbl \in StationRowsOf(StationIds)
    /\ segments_tbl = SegmentIds
    /\ events_tbl \in EventSets(StationIds, SegmentIds)
    /\ bad_dates = {}
    /\ lastQuery = NULL
    /\ Loaded

\* a store with several stations and segments: the stations created in the
\* first year, with or without coordinates, and open and close events of any
\* of the stations and segments
MaxQueryEvents == 2

QueryStationIds == {"S1", "S2"}

QuerySegmentIds == {"G1", "G2"}

QueryEvents ==
    {e \in EventsOf(QueryStationIds, QuerySegmentIds) : e.event_type # "electrification"}

InitQuery ==
    /\ stations_tbl \in [QueryStationIds -> [current_status : {"open"},
                                             created_at : {{SetMin(EventYears)}},
                                             has_coords : BOOLEAN]]
    /\ segments_tbl = QuerySegmentIds
    /\ events_tbl \in SubsetsUpTo(QueryEvents, MaxQueryEvents)
    /\ bad_dates = {}
    /\ lastQuery = NULL
    /\ Loaded

\* queryDataForYear(year) on the loaded store, run to completion
QueryYear ==
    \E year \in QueryYears :
        /\ connectionRef # NULL
        /\ AllTables \subseteq tables
        /\ ~StationStatementRaises
        /\ ~SegmentStatementRaises
        /\ lastQuery' = {queryResult(year)}
        /\ UNCHANGED <<dataVars, fnVars, unmountVars, leafletVars, providerVars, mapVars>>

\* queryDataForYear(year) on the loaded store when a statement raises: the
\* awaited conn.query rejects and nothing in the function catches it
QueryYearRejects ==
    \E year \in QueryYears :
        /\ connectionRef # NULL
        /\ AllTables \subseteq tables
        /\ StationStatementRaises \/ SegmentStatementRaises \/ SegmentStatementMayRaise
        /\ lastQuery' = {rejectedResult(year)}
        /\ UNCHANGED <<dataVars, fnVars, unmountVars, leafletVars, providerVars, mapVars>>

vars == <<stations_tbl, segments_tbl, events_tbl, bad_dates, lastQuery, loadPc, connectionRef,
          tables, isLoading, error, exposed, currentYear, effectDeps, effectQuery,
          queries, mv_data, names_arg, altNames_out, geometry_raw, geometry_out,
          unmountPc, connState, closedUse, mountedLoading, mapRef, mapInstanceRef,
          leaflet, initPc, layerDeps, layers, showPlanned, currentZoom>>

NextResolve == QueryYear

SpecResolve == InitResolve /\ [][NextResolve]_vars

SpecQuery == InitQuery /\ [][NextResolve]_vars

\* a store whose events table holds rows with a malformed date: a station,
\* with or without coordinates, a segment, and any of the events marked
InitDates ==
    /\ stations_tbl \in [StationIds -> [current_status : {"open"},
                                        created_at : {NULL},
                                        has_coords : BOOLEAN]]
    /\ segments_tbl = SegmentIds
    /\ events_tbl \in EventSets(StationIds, SegmentIds)
    /\ bad_dates \in SUBSET events_tbl
    /\ lastQuery = NULL
    /\ Loaded

NextDates == QueryYear \/ QueryYearRejects

SpecDates == InitDates /\ [][NextDates]_vars

----------------------------------------------------------------------------
(* DatabaseProvider.loadData: one step per await *)

LoadSteps ==
    <<"selectBundle", "instantiate", "connect", "set_max_expression_depth",
      "fetch", "arrayBuffer", "register_stations_parquet",
      "register_station_names_parquet", "create_stations", "create_station_names",
      "register_events_json", "register_segments_json", "create_events",
      "create_segments", "count_stations", "count_segments", "select_stations",
      "select_station_names">>

StepIndex(step) == CHOOSE i \in 1..Len(LoadSteps) : LoadSteps[i] = step

Loading == loadPc \in {LoadSteps[i] : i \in 1..Len(LoadSteps)}

\* the table a CREATE OR REPLACE TABLE step creates
CreatedBy(step) ==
    IF step = "create_stations" THEN {"stations"}
    ELSE IF step = "create_station_names" THEN {"station_names"}
    ELSE IF step = "create_events" THEN {"events"}
    ELSE IF step = "create_segments" THEN {"segments"}
    ELSE {}

\* the steps that are a conn.query on the connection loadData opened
ConnQuerySteps ==
    {"set_max_expression_depth", "create_stations", "create_station_names",
     "create_events", "create_segments", "count_stations", "count_segments",
     "select_stations", "select_station_names"}

\* the step loadData issues once the step it awaits has completed
NextLoadStep ==
    IF StepIndex(loadPc) < Len(LoadSteps)
    THEN {LoadSteps[StepIndex(loadPc) + 1]} ELSE NULL

\* the awaited step completes and loadData runs on to its next await; after
\* the last one it sets the four collections and, in finally, isLoading.
\* Nothing in loadData looks at whether the provider is still mounted
LoadStep ==
    /\ Loading
    /\ connectionRef' = IF loadPc = "connect" THEN {"conn"} ELSE connectionRef
    /\ connState' = IF loadPc = "connect" THEN "open" ELSE connState
    /\ closedUse' = (closedUse \/ (connState' = "closed"
                                   /\ NextLoadStep \cap ConnQuerySteps # {}))
    /\ tables' = tables \cup CreatedBy(loadPc)
    /\ IF StepIndex(loadPc) < Len(LoadSteps)
       THEN /\ loadPc' = LoadSteps[StepIndex(loadPc) + 1]
            /\ UNCHANGED <<isLoading, exposed>>
       ELSE /\ loadPc' = "done"
            /\ exposed' = ExposedCollections
            /\ isLoading' = FALSE
    /\ UNCHANGED <<error, dataVars, fnVars, unmountPc, leafletVars, lastQuery, mapVars>>

\* the awaited step rejects (or a fetch answers not ok): catch sets error,
\* finally clears isLoading; connectionRef and the tables stay as they are
LoadFail ==
    /\ Loading
    /\ loadPc' = "failed"
    /\ error' = {"Failed to initialize DuckDB"}
    /\ isLoading' = FALSE
    /\ UNCHANGED <<connectionRef, tables, exposed, dataVars, fnVars, unmountVars,
                   leafletVars, lastQuery, mapVars>>

----------------------------------------------------------------------------
(* queryDataForYear as MapView calls it: one step per await *)

EmptyResult == [from_store |-> FALSE, stations |-> <<>>, segments |-> <<>>]

\* a call that goes on to the station statement whether or not a
\* connection is held
NewQuery_no_guard(year) ==
    [year |-> year, cancelled |-> FALSE, pc |-> "stations", result |-> EmptyResult]

\* const conn = connectionRef.current; if (!conn) return { stations: [], segments: [] }
NewQuery(year) ==
    IF connectionRef = NULL
    THEN [year |-> year, cancelled |-> FALSE, pc |-> "resolved", result |-> EmptyResult]
    ELSE [year |-> year, cancelled |-> FALSE, pc |-> "stations", result |-> EmptyResult]

\* the statement of a call reads the year control as it stands when the
\* statement completes
yearOfCall_shared(q) == currentYear

\* the statements of a call are built from its own argument year
yearOfCall(q) == queries[q].year

\* the station statement needs the tables it reads
StationsQueryDone(q) ==
    /\ queries[q].pc = "stations"
    /\ {"stations", "events", "station_names"} \subseteq tables
    /\ ~StationStatementRaises
    /\ queries' = [queries EXCEPT ![q].pc = "segments",
                                  ![q].result.stations = stationsForYear(yearOfCall(q))]
    /\ closedUse' = (closedUse \/ connState = "closed")
    /\ UNCHANGED <<dataVars, fnVars, unmountPc, connState, leafletVars, lastQuery,
                   providerVars, currentYear, effectDeps,
                   effectQuery, mv_data>>

\* the segment statement completes and the call returns both collections
SegmentsQueryDone(q) ==
    /\ queries[q].pc = "segments"
    /\ {"segments", "events"} \subseteq tables
    /\ ~SegmentStatementRaises
    /\ queries' = [queries EXCEPT ![q].pc = "resolved",
                                  ![q].result.from_store = TRUE,
                                  ![q].result.segments = segmentsForYear(yearOfCall(q))]
    /\ UNCHANGED <<dataVars, fnVars, unmountVars, leafletVars, lastQuery,
                   providerVars, currentYear, effectDeps,
                   effectQuery, mv_data>>

\* an awaited statement rejects (a table is missing, the store fails)
QueryReject(q) ==
    /\ queries[q].pc \in {"stations", "segments"}
    /\ queries' = [queries EXCEPT ![q].pc = "rejected"]
    /\ UNCHANGED <<dataVars, fnVars, unmountVars, leafletVars, lastQuery,
                   providerVars, currentYear, effectDeps,
                   effectQuery, mv_data>>

----------------------------------------------------------------------------
(* MapView: the currentYear prop and the query effect *)

\* the parent renders MapView with another year
ChangeYear(year) ==
    /\ unmountPc = "mounted"
    /\ year # currentYear
    /\ Len(queries) < MaxQueries
    /\ currentYear' = year
    /\ UNCHANGED <<dataVars, fnVars, unmountVars, leafletVars, lastQuery,
                   providerVars, effectDeps, effectQuery,
                   queries, mv_data>>

\* the cleanup of the effect leaves the flag alone
cleanup_keeps_flag(qs, eq) == qs

\* return () => { cancelled = true; }
cleanup(qs, eq) ==
    IF eq = NULL THEN qs ELSE [qs EXCEPT ![Val(eq)].cancelled = TRUE]

\* the effect runs after a render in which currentYear or isLoading changed:
\* the cleanup of the previous run, then, unless loading, a new query
RunQueryEffect ==
    /\ unmountPc = "mounted"
    /\ effectDeps # {<<currentYear, isLoading>>}
    /\ isLoading \/ Len(queries) < MaxQueries
    /\ effectDeps' = {<<currentYear, isLoading>>}
    /\ IF isLoading
       THEN /\ queries' = cleanup(queries, effectQuery)
            /\ effectQuery' = NULL
       ELSE /\ queries' = Append(cleanup(queries, effectQuery), NewQuery(currentYear))
            /\ effectQuery' = {Len(queries) + 1}
    /\ UNCHANGED <<dataVars, fnVars, unmountVars, leafletVars, lastQuery, providerVars, currentYear, mv_data>>

\* .then(data => { if (cancelled) return; setStations(...); setSegments(...) })
ThenCallback(q) ==
    /\ queries[q].pc = "resolved"
    /\ IF queries[q].cancelled
       THEN /\ queries' = [queries EXCEPT ![q].pc = "dropped"]
            /\ UNCHANGED mv_data
       ELSE /\ queries' = [queries EXCEPT ![q].pc = "applied"]
            /\ mv_data' = {[query |-> q, year |-> queries[q].year,
                            result |-> queries[q].result]}
    /\ UNCHANGED <<dataVars, fnVars, unmountVars, leafletVars, lastQuery,
                   providerVars, currentYear, effectDeps,
                   effectQuery>>

\* .catch(err => console.error(...))
CatchCallback(q) ==
    /\ queries[q].pc = "rejected"
    /\ queries' = [queries EXCEPT ![q].pc = "logged"]
    /\ UNCHANGED <<dataVars, fnVars, unmountVars, leafletVars, lastQuery,
                   providerVars, currentYear, effectDeps,
                   effectQuery, mv_data>>

\* the source data of the page: a station and a segment with their openings
AppData ==
    /\ stations_tbl = [sid \in StationIds |->
                          [current_status |-> "open", created_at |-> NULL,
                           has_coords |-> TRUE]]
    /\ segments_tbl = SegmentIds
    /\ events_tbl =
          {[event_type |-> "station_open", year |-> SetMax(AppYears),
            station_id |-> {sid}, segment_id |-> NULL] : sid \in StationIds}
          \cup
          {[event_type |-> "segment_open", year |-> SetMin(AppYears),
            station_id |-> NULL, segment_id |-> {gid}] : gid \in SegmentIds}
    /\ bad_dates = {}
    /\ lastQuery = NULL

\* the page at mount: loadData has started and MapView shows the first year
InitApp ==
    /\ AppData
    /\ loadPc = LoadSteps[1]
    /\ connectionRef = NULL
    /\ tables = {}
    /\ isLoading = TRUE
    /\ error = NULL
    /\ exposed = {}
    /\ currentYear = SetMin(AppYears)
    /\ effectDeps = NULL
    /\ effectQuery = NULL
    /\ queries = <<>>
    /\ mv_data = NULL
    /\ NoCalls
    /\ unmountPc = "mounted"
    /\ connState = "none"
    /\ closedUse = FALSE
    /\ MapAtMount(TRUE)
    /\ leaflet = FALSE

NextApp ==
    \/ LoadStep
    \/ LoadFail
    \/ \E year \in AppYears : ChangeYear(year)
    \/ RunQueryEffect
    \/ \E q \in DOMAIN queries : StationsQueryDone(q)
    \/ \E q \in DOMAIN queries : SegmentsQueryDone(q)
    \/ \E q \in DOMAIN queries : QueryReject(q)
    \/ \E q \in DOMAIN queries : ThenCallback(q)
    \/ \E q \in DOMAIN queries : CatchCallback(q)

SpecApp == InitApp /\ [][NextApp]_vars

----------------------------------------------------------------------------
(* Unmount of DatabaseProvider, and of MapView below it *)

\* the cleanups run: the query effect of MapView sets its flag, the map is
\* removed, and the provider calls close() on the connection connectionRef
\* holds; with no connection held the async cleanup has nothing to await
\* and is over at once
Unmount ==
    /\ unmountPc = "mounted"
    /\ queries' = cleanup(queries, effectQuery)
    /\ effectQuery' = NULL
    /\ mapInstanceRef' = NULL
    /\ IF connectionRef = NULL
       THEN /\ unmountPc' = "cleaned"
            /\ UNCHANGED connState
       ELSE /\ unmountPc' = "closing"
            /\ connState' = "closed"
    /\ UNCHANGED <<dataVars, fnVars, lastQuery, providerVars, currentYear, effectDeps,
                   mv_data, closedUse, mountedLoading, mapRef, leaflet, initPc,
                   layerDeps, layers, showPlanned, currentZoom>>

\* await connectionRef.current?.close() is over: connectionRef.current = null
CleanupDone ==
    /\ unmountPc = "closing"
    /\ unmountPc' = "cleaned"
    /\ connectionRef' = NULL
    /\ UNCHANGED <<dataVars, fnVars, lastQuery, loadPc, tables, isLoading, error,
                   exposed, mapVars, connState, closedUse, leafletVars>>

NextUnmount ==
    \/ NextApp
    \/ Unmount
    \/ CleanupDone

\* an awaited step of loadData settles, and so does the awaited close()
SpecUnmount ==
    /\ InitApp
    /\ [][NextUnmount]_vars
    /\ WF_vars(LoadStep \/ LoadFail)
    /\ WF_vars(CleanupDone)

----------------------------------------------------------------------------
(* MapView: the map div, the Leaflet map and its layers *)

\* the map init effect, which runs once, after the first render: it returns
\* at once without the map div; with it, initMap creates the map when
\* window.L is there and otherwise arms a timer to look again
InitMapEffect ==
    /\ initPc = "pending"
    /\ IF ~mapRef \/ mapInstanceRef # NULL
       THEN /\ initPc' = "returned"
            /\ UNCHANGED mapInstanceRef
       ELSE IF leaflet
            THEN /\ initPc' = "created"
                 /\ mapInstanceRef' = {"map"}
            ELSE /\ initPc' = "waiting"
                 /\ UNCHANGED mapInstanceRef
    /\ UNCHANGED <<dataVars, fnVars, lastQuery, providerVars, mapVars, unmountVars,
                   mountedLoading, mapRef, leaflet, layerDeps, layers, showPlanned,
                   currentZoom>>

\* setTimeout(initMap, 100) fires and finds window.L
InitMapPoll ==
    /\ initPc = "waiting"
    /\ leaflet
    /\ initPc' = "created"
    /\ mapInstanceRef' = {"map"}
    /\ UNCHANGED <<dataVars, fnVars, lastQuery, providerVars, mapVars, unmountVars,
                   mountedLoading, mapRef, leaflet, layerDeps, layers, showPlanned,
                   currentZoom>>

\* the Leaflet script has loaded
LeafletLoads ==
    /\ ~leaflet
    /\ leaflet' = TRUE
    /\ UNCHANGED <<dataVars, fnVars, lastQuery, providerVars, mapVars, unmountVars,
                   mountedLoading, mapRef, mapInstanceRef, initPc, layerDeps, layers,
                   showPlanned, currentZoom>>

\* MapView renders again after isLoading changed: the loading notice while
\* isLoading, the map div otherwise
CommitRender ==
    /\ initPc # "pending"
    /\ mapRef # ~isLoading
    /\ mapRef' = ~isLoading
    /\ UNCHANGED <<dataVars, fnVars, lastQuery, providerVars, mapVars, unmountVars,
                   mountedLoading, mapInstanceRef, leaflet, initPc, layerDeps, layers,
                   showPlanned, currentZoom>>

\* [stations, segments, currentZoom, showPlanned]
LayerDepsNow == <<mv_data, currentZoom, showPlanned>>

\* the layer effect, after the first render and after every change of its
\* dependencies: it returns at once without a map or without window.L,
\* and otherwise replaces the layers by those of the data it holds
LayerEffect ==
    /\ initPc # "pending"
    /\ layerDeps # {LayerDepsNow}
    /\ layerDeps' = {LayerDepsNow}
    /\ layers' = IF mapInstanceRef # NULL /\ leaflet THEN {mv_data} ELSE layers
    /\ UNCHANGED <<dataVars, fnVars, lastQuery, providerVars, mapVars, unmountVars,
                   mountedLoading, mapRef, mapInstanceRef, leaflet, initPc, showPlanned,
                   currentZoom>>

\* the planned toggle, a control of the map: setShowPlanned(prev => !prev)
TogglePlanned ==
    /\ mapInstanceRef # NULL
    /\ showPlanned' = ~showPlanned
    /\ UNCHANGED <<dataVars, fnVars, lastQuery, providerVars, mapVars, unmountVars,
                   mountedLoading, mapRef, mapInstanceRef, leaflet, initPc, layerDeps,
                   layers, currentZoom>>

\* map.on('zoomend', () => setCurrentZoom(map.getZoom()))
ZoomEnd(zoom) ==
    /\ mapInstanceRef # NULL
    /\ zoom # currentZoom
    /\ currentZoom' = zoom
    /\ UNCHANGED <<dataVars, fnVars, lastQuery, providerVars, mapVars, unmountVars,
                   mountedLoading, mapRef, mapInstanceRef, leaflet, initPc, layerDeps,
                   layers, showPlanned>>

\* MapView is mounted with the provider, while loadData runs, or under a
\* provider that has finished loading
InitMap ==
    \/ InitApp
    \/ AppData /\ Loaded

NextMap ==
    \/ NextApp
    \/ InitMapEffect
    \/ InitMapPoll
    \/ LeafletLoads
    \/ CommitRender
    \/ LayerEffect
    \/ TogglePlanned
    \/ \E zoom \in ZoomLevels : ZoomEnd(zoom)

\* effects, renders and timers that are due run, awaited steps settle
SpecMap ==
    /\ InitMap
    /\ [][NextMap]_vars
    /\ WF_vars(LoadStep \/ LoadFail)
    /\ WF_vars(RunQueryEffect)
    /\ WF_vars(\E q \in DOMAIN queries :
                  StationsQueryDone(q) \/ SegmentsQueryDone(q) \/ QueryReject(q))
    /\ WF_vars(\E q \in DOMAIN queries : ThenCallback(q) \/ CatchCallback(q))
    /\ WF_vars(InitMapEffect)
    /\ WF_vars(InitMapPoll)
    /\ WF_vars(CommitRender)
    /\ WF_vars(LayerEffect)

----------------------------------------------------------------------------
(* buildAltNameMap *)

\* the number of records of a names list
MaxNames == 3

\* a text is the sequence of its pieces, so that a key built by
\* concatenation is equal to another exactly when the two texts are equal
Digits == <<"0", "1", "2", "3", "4", "5", "6", "7", "8", "9">>

\* the decimal text of a number, as a template literal renders it
RECURSIVE Decimal(_)
Decimal(n) ==
    IF n < 10 THEN <<Digits[n + 1]>>
    ELSE Decimal(n \div 10) \o <<Digits[(n % 10) + 1]>>

\* the language column: two plain codes and a code that ends like a suffix
Languages == {<<"ru">>, <<"en">>, <<"ru", "_", "1">>}

\* an absent or empty name or language is falsy
NoLanguage == <<>>

NoName == ""

NameValues == {"A", "B"}

NameEntries ==
    [name : NameValues \cup {NoName}, language : Languages \cup {NoLanguage}]

\* the sequences of at most n elements of S
SeqsUpTo(S, n) == UNION {[1..k -> S] : k \in 0..n}

\* the arguments of buildAltNameMap: a list of records, or not a list
NamesArgs(n) ==
    {[isArray |-> TRUE, entries |-> es] : es \in SeqsUpTo(NameEntries, n)}
    \cup {[isArray |-> FALSE, entries |-> <<>>]}

EmptyMap == [k \in {} |-> NoName]

\* obj[key] = value
Put(obj, key, value) ==
    [k \in DOMAIN obj \cup {key} |-> IF k = key THEN value ELSE obj[k]]

\* langCounts[language] ?? 0
CountOf(langCounts, language) ==
    IF language \in DOMAIN langCounts THEN langCounts[language] ELSE 0

\* `name:${language}${suffix}`
AltNameKey(language, count) ==
    <<"name:">> \o language
        \o (IF count > 1 THEN <<"_">> \o Decimal(count - 1) ELSE <<>>)

\* one iteration of names.forEach
AltNameStep(acc, entry) ==
    IF entry.name = NoName \/ entry.language = NoLanguage THEN acc
    ELSE LET count == CountOf(acc.langCounts, entry.language) + 1
         IN  [altNames |-> Put(acc.altNames, AltNameKey(entry.language, count),
                               entry.name),
              langCounts |-> Put(acc.langCounts, entry.language, count)]

RECURSIVE AltNameLoop(_, _, _)
AltNameLoop(entries, i, acc) ==
    IF i > Len(entries) THEN acc
    ELSE AltNameLoop(entries, i + 1, AltNameStep(acc, entries[i]))

buildAltNameMap(names) ==
    IF ~names.isArray THEN EmptyMap
    ELSE AltNameLoop(names.entries, 1,
                     [altNames |-> EmptyMap, langCounts |-> EmptyMap]).altNames

\* the page is not mounted: no store, no provider state, no query
Unmounted ==
    /\ stations_tbl = <<>>
    /\ segments_tbl = {}
    /\ events_tbl = {}
    /\ bad_dates = {}
    /\ lastQuery = NULL
    /\ loadPc = LoadSteps[1]
    /\ connectionRef = NULL
    /\ tables = {}
    /\ isLoading = TRUE
    /\ error = NULL
    /\ exposed = {}
    /\ currentYear = SetMin(AppYears)
    /\ effectDeps = NULL
    /\ effectQuery = NULL
    /\ queries = <<>>
    /\ mv_data = NULL
    /\ unmountPc = "mounted"
    /\ connState = "none"
    /\ closedUse = FALSE
    /\ MapAtMount(TRUE)
    /\ leaflet = FALSE

InitNames ==
    /\ Unmounted
    /\ names_arg \in {{a} : a \in NamesArgs(MaxNames)}
    /\ altNames_out = NULL
    /\ geometry_raw = NULL
    /\ geometry_out = NULL

\* a call of buildAltNameMap on the names
CallBuildAltNameMap ==
    /\ altNames_out = NULL
    /\ altNames_out' = {buildAltNameMap(Val(names_arg))}
    /\ UNCHANGED <<dataVars, lastQuery, providerVars, mapVars, unmountVars, leafletVars, names_arg,
                   geometry_raw, geometry_out>>

NextNames == CallBuildAltNameMap

SpecNames == InitNames /\ [][NextNames]_vars

----------------------------------------------------------------------------
(* normalizeGeometry *)

\* the number of elements of a coordinate list
MaxPath == 3

\* the values a component of an element can hold: numbers, a numeric text,
\* a text that is no number, null, a non-finite number and a missing slot
Scalars == {"1", "2", "'3'", "x", "null", "NaN", "Infinity", "undefined"}

\* Number(value)
Number(v) ==
    CASE v \in {"1", "2", "Infinity", "NaN"} -> v
      [] v = "'3'" -> "3"
      [] v = "null" -> "0"
      [] OTHER -> "NaN"

\* Number.isFinite(n)
IsFinite(n) == n \in {"0", "1", "2", "3"}

\* what JSON.parse reads back from the JSON.stringify of a value: a
\* non-finite number is written as null, a missing slot stays missing
JsonScalar(v) == IF v \in {"NaN", "Infinity"} THEN "null" ELSE v

\* an element of a coordinate list: an array [a, b, ...], a record {f0, f1},
\* a record {lat, lon}, a record without those keys, a number or text, null
ElementKinds == {"array", "f0f1", "latlon", "object", "scalar", "null"}

Element(kind, a, b) == [kind |-> kind, a |-> a, b |-> b]

\* the pairs of numbers
GoodPairs == {<<"1", "2">>, <<"2", "1">>}

\* the elements that hold a pair of numbers, in the three encodings
GoodElements ==
    {Element(k, p[1], p[2]) : k \in {"array", "f0f1", "latlon"}, p \in GoodPairs}

\* elements with a component that is not a finite number, elements that are
\* no pair at all, and arrays whose components are coerced to numbers
OtherElements ==
    {Element(k, p[1], p[2]) : k \in {"array", "f0f1", "latlon"},
                              p \in {<<"x", "1">>, <<"1", "Infinity">>}}
    \cup {Element("array", "null", "1"), Element("array", "'3'", "2"),
          Element("array", "1", "undefined"), Element("object", "undefined", "undefined"),
          Element("scalar", "1", "undefined"), Element("null", "undefined", "undefined")}

Elements == GoodElements \cup OtherElements

\* a value as normalizeGeometry tests it: an array of elements, an object
\* with its type and its geometry, features[0].geometry and coordinates
\* properties, or anything else (a number, a text, a boolean, null)
ObjectTypes == {"Feature", "FeatureCollection", "LineString", "none"}

ArrayData(elems) ==
    [kind |-> "array", type |-> "none", geometry |-> "absent",
     feature0 |-> "absent", coordinates |-> "absent", elems |-> elems]

ObjectData(type, geometry, feature0, coordinates, elems) ==
    [kind |-> "object", type |-> type, geometry |-> geometry,
     feature0 |-> feature0, coordinates |-> coordinates, elems |-> elems]

OtherData ==
    [kind |-> "other", type |-> "none", geometry |-> "absent",
     feature0 |-> "absent", coordinates |-> "absent", elems |-> <<>>]

\* the coordinate lists of the documents: arrays holding pairs of numbers
CoordinateLists(n) ==
    SeqsUpTo({e \in GoodElements : e.kind = "array"}, n)

\* lists of pairs of numbers in one or several of the three encodings
EncodedLists(n) ==
    {es \in SeqsUpTo(GoodElements, n - 1) : es # <<>>}

ObjectDocs(n) ==
    {ObjectData(t, g, f, c, es) :
        t \in ObjectTypes,
        g \in {"absent", "noCoordinates", "coordinates"},
        f \in {"absent", "noGeometry", "noCoordinates", "coordinates"},
        c \in {"absent", "list"},
        es \in CoordinateLists(n)}

\* the arguments of normalizeGeometry: a falsy value, a text that is no
\* JSON, a value, or the JSON text of a value
RawInputs(n) ==
    {[form |-> "falsy", data |-> OtherData], [form |-> "garbage", data |-> OtherData]}
    \cup {[form |-> "value", data |-> ArrayData(es)] : es \in SeqsUpTo(Elements, n)}
    \cup {[form |-> "text", data |-> ArrayData(es)] : es \in EncodedLists(n) \cup {<<>>}}
    \cup {[form |-> f, data |-> doc] : f \in {"value", "text"},
                                     doc \in ObjectDocs(n) \cup {OtherData}}

\* JSON.parse(JSON.stringify(data))
JsonElement(e) == Element(e.kind, JsonScalar(e.a), JsonScalar(e.b))

JsonRoundTrip(data) ==
    [data EXCEPT !.elems = [i \in DOMAIN data.elems |-> JsonElement(data.elems[i])]]

\* what the unwrapping leaves in data: an array, or something that is none
Unwrapped(isArray, elems) == [threw |-> FALSE, isArray |-> isArray, elems |-> elems]

\* the unwrapping that reads geometry.coordinates of every Feature and of
\* the first feature of every FeatureCollection
unwrap_unguarded(data) ==
    IF data.kind = "array" THEN Unwrapped(TRUE, data.elems)
    ELSE IF data.kind # "object" THEN Unwrapped(FALSE, <<>>)
    ELSE IF data.type = "Feature"
         THEN IF data.geometry = "absent"
              THEN [threw |-> TRUE, isArray |-> FALSE, elems |-> <<>>]
              ELSE Unwrapped(data.geometry = "coordinates", data.elems)
    ELSE IF data.type = "FeatureCollection"
         THEN IF data.feature0 \in {"absent", "noGeometry"}
              THEN [threw |-> TRUE, isArray |-> FALSE, elems |-> <<>>]
              ELSE Unwrapped(data.feature0 = "coordinates", data.elems)
    ELSE IF data.type # "none" /\ data.coordinates = "list"
         THEN Unwrapped(TRUE, data.elems)
    ELSE Unwrapped(FALSE, <<>>)

\* if (data && typeof data === 'object' && !Array.isArray(data)) { ... }
unwrap(data) ==
    IF data.kind = "array" THEN Unwrapped(TRUE, data.elems)
    ELSE IF data.kind # "object" THEN Unwrapped(FALSE, <<>>)
    ELSE IF data.type = "Feature" /\ data.geometry # "absent"
         THEN IF data.geometry = "coordinates"
              THEN Unwrapped(TRUE, data.elems) ELSE Unwrapped(FALSE, <<>>)
    ELSE IF data.type = "FeatureCollection"
            /\ data.feature0 \in {"noCoordinates", "coordinates"}
         THEN IF data.feature0 = "coordinates"
              THEN Unwrapped(TRUE, data.elems) ELSE Unwrapped(FALSE, <<>>)
    ELSE IF data.type # "none" /\ data.coordinates = "list"
         THEN Unwrapped(TRUE, data.elems)
    ELSE Unwrapped(FALSE, <<>>)

\* the callback of map with the geographic keys read as [lon, lat]
toPair_lon_lat(pair) ==
    IF pair.kind \in {"array", "f0f1"} THEN <<Number(pair.a), Number(pair.b)>>
    ELSE IF pair.kind = "latlon" THEN <<Number(pair.b), Number(pair.a)>>
    ELSE <<"NaN", "NaN">>

\* the callback of map
toPair(pair) ==
    IF pair.kind \in {"array", "f0f1", "latlon"}
    THEN <<Number(pair.a), Number(pair.b)>>
    ELSE <<"NaN", "NaN">>

RECURSIVE SelectPairs(_)
SelectPairs(pairs) ==
    IF pairs = <<>> THEN <<>>
    ELSE LET rest == SelectPairs(Tail(pairs))
         IN  IF IsFinite(Head(pairs)[1]) /\ IsFinite(Head(pairs)[2])
             THEN <<Head(pairs)>> \o rest ELSE rest

\* a list with an element that is no pair of finite numbers gives nothing
mapAndFilter_all_or_nothing(elems) ==
    LET pairs == [i \in DOMAIN elems |-> toPair(elems[i])]
    IN  IF \A i \in DOMAIN pairs : IsFinite(pairs[i][1]) /\ IsFinite(pairs[i][2])
        THEN pairs ELSE <<>>

\* data.map(...).filter(([lat, lon]) => Number.isFinite(lat) && Number.isFinite(lon))
mapAndFilter(elems) ==
    SelectPairs([i \in DOMAIN elems |-> toPair(elems[i])])

\* what a call does: it returns a path, or it throws
Returns(path) == [threw |-> FALSE, path |-> path]

Throws == [threw |-> TRUE, path |-> <<>>]

normalizeGeometry(raw) ==
    IF raw.form = "falsy" THEN Returns(<<>>)
    ELSE IF raw.form = "garbage" THEN Returns(<<>>)
    ELSE LET parsed == IF raw.form = "text" THEN JsonRoundTrip(raw.data) ELSE raw.data
             data == unwrap(parsed)
         IN  IF data.threw THEN Throws
             ELSE IF ~data.isArray THEN Returns(<<>>)
             ELSE Returns(mapAndFilter(data.elems))

InitGeometry ==
    /\ Unmounted
    /\ names_arg = NULL
    /\ altNames_out = NULL
    /\ geometry_raw \in {{raw} : raw \in RawInputs(MaxPath)}
    /\ geometry_out = NULL

\* a call of normalizeGeometry on the raw geometry
CallNormalizeGeometry ==
    /\ geometry_out = NULL
    /\ geometry_out' = {normalizeGeometry(Val(geometry_raw))}
    /\ UNCHANGED <<dataVars, lastQuery, providerVars, mapVars, unmountVars, leafletVars, names_arg,
                   altNames_out, geometry_raw>>

NextGeometry == CallNormalizeGeometry

SpecGeometry == InitGeometry /\ [][NextGeometry]_vars

----------------------------------------------------------------------------
(* Vocabulary of the properties *)

\* the last completed query, when there is one
Asked == lastQuery # NULL

Q == Val(lastQuery)

StationRowIdx == 1..Len(Q.station_state)

SegmentRowIdx == 1..Len(Q.segment_state)

\* among the given event years, the maximum that is <= year; NULL if none
latest_year_at_or_before(years, year) == SqlMax({y \in years : y <= year})

OpenAtOrBefore(r) ==
    latest_year_at_or_before(StationEventYears(r.station_id, "station_open"), Q.year)

CloseAtOrBefore(r) ==
    latest_year_at_or_before(StationEventYears(r.station_id, "station_close"), Q.year)

SegOpenAtOrBefore(r) ==
    latest_year_at_or_before(SegmentEventYears(r.segment_id, "segment_open"), Q.year)

SegCloseAtOrBefore(r) ==
    latest_year_at_or_before(SegmentEventYears(r.segment_id, "segment_close"), Q.year)

ProducibleStates == {"planned", "existing", "new", "electrified", "closed"}

\* the state the precedence order gives an entity that is neither planned nor
\* excluded, from the events that fall in the query year
ByPrecedence(closeNow, statusClosed, electrifiedNow, openNow) ==
    IF closeNow THEN "closed"
    ELSE IF statusClosed THEN "closed"
    ELSE IF electrifiedNow THEN "electrified"
    ELSE IF openNow THEN "new"
    ELSE "existing"

----------------------------------------------------------------------------
(* C1..C8: resolution of one query year, under SpecResolve *)

\* C1: the open year the station query uses is the latest station_open year
\* at or before the query year: a station with a station_open event at or
\* before the query year is not planned because of a later station_open event.
C1_OpenYearAtOrBefore ==
    Asked => \A i \in StationRowIdx :
        LET r == Q.station_state[i]
        IN  OpenAtOrBefore(r) # NULL =>
                /\ r.open_year = OpenAtOrBefore(r)
                /\ r.state_label # "planned"

\* C2: the close year the station query uses is the latest station_close year
\* at or before the query year: a station that is not planned is closed in a
\* year with a station_close event and excluded once a station_close event
\* lies strictly before the query year, whatever close events come later.
C2_CloseYearAtOrBefore ==
    Asked => \A i \in StationRowIdx :
        LET r == Q.station_state[i]
            c == CloseAtOrBefore(r)
        IN  (c # NULL /\ r.state_label # "planned") =>
                /\ Val(c) = Q.year => r.state_label = "closed"
                /\ Val(c) < Q.year => r.state_label = NullLabel

\* C3: for an entity that is neither planned nor excluded the first matching
\* rule wins: close event in the query year, then (stations) current_status
\* closed, then electrification in the query year, then open event in the
\* query year, then existing.
C3_Precedence ==
    Asked =>
        /\ \A i \in StationRowIdx :
            LET r == Q.station_state[i]
            IN  r.state_label \notin {"planned", NullLabel} =>
                    r.state_label =
                        ByPrecedence(
                            Q.year \in StationEventYears(r.station_id, "station_close"),
                            r.current_status = "closed",
                            Q.year \in StationEventYears(r.station_id, "electrification"),
                            Q.year \in StationEventYears(r.station_id, "station_open"))
        /\ \A i \in SegmentRowIdx :
            LET r == Q.segment_state[i]
            IN  r.state_label \notin {"planned", NullLabel} =>
                    r.state_label =
                        ByPrecedence(
                            Q.year \in SegmentEventYears(r.segment_id, "segment_close"),
                            FALSE,
                            Q.year \in SegmentEventYears(r.segment_id, "electrification"),
                            Q.year \in SegmentEventYears(r.segment_id, "segment_open"))

\* C4: the open and close years the segment query uses are the latest
\* segment_open / segment_close years at or before the query year.
C4_SegmentYearsAtOrBefore ==
    Asked => \A i \in SegmentRowIdx :
        LET r == Q.segment_state[i]
        IN  /\ SegOpenAtOrBefore(r) # NULL => r.open_year = SegOpenAtOrBefore(r)
            /\ SegCloseAtOrBefore(r) # NULL => r.close_year = SegCloseAtOrBefore(r)

\* C5: a segment without any segment_open event is planned in every query year.
C5_SegmentWithoutOpenIsPlanned ==
    Asked => \A i \in SegmentRowIdx :
        LET r == Q.segment_state[i]
        IN  SegmentEventYears(r.segment_id, "segment_open") = {} =>
                r.state_label = "planned"

C7_Totality ==
    Asked =>
        /\ \A i \in StationRowIdx :
            LET r == Q.station_state[i]
            IN  /\ r.state_label \in ProducibleStates \cup {NullLabel}
                /\ r.state_label = NullLabel => SqlLt(r.close_year, Q.year)
        /\ \A i \in SegmentRowIdx :
            LET r == Q.segment_state[i]
            IN  /\ r.state_label \in ProducibleStates \cup {NullLabel}
                /\ r.state_label = NullLabel => SqlLt(r.close_year, Q.year)
        /\ \A k \in 1..Len(Q.stations) : Q.stations[k].state \in ProducibleStates
        /\ \A k \in 1..Len(Q.segments) : Q.segments[k].state \in ProducibleStates

\* a station that exists without any event in the query year, next to a segment
C7_Witness ==
    /\ Asked
    /\ \E i \in StationRowIdx :
        /\ Q.station_state[i].state_label = "existing"
        /\ Q.station_state[i].electrified_year # NULL
    /\ \E i \in SegmentRowIdx : Q.segment_state[i].state_label \in ProducibleStates

\* C8: the returned collections hold exactly the loaded stations (those with
\* coordinates) and segments whose row is not excluded: each of them once,
\* with the state of its row, and no excluded one.
C8_ResultIsNonExcluded ==
    Asked =>
        /\ \A sid \in LocatedStations :
            Cardinality({i \in StationRowIdx : Q.station_state[i].station_id = sid}) = 1
        /\ \A i \in StationRowIdx :
            LET r == Q.station_state[i]
                hits == {k \in 1..Len(Q.stations) : Q.stations[k].station_id = r.station_id}
            IN  /\ r.station_id \in LocatedStations
                /\ IF r.state_label = NullLabel THEN hits = {}
                   ELSE /\ Cardinality(hits) = 1
                        /\ \A k \in hits : Q.stations[k].state = r.state_label
        /\ \A k \in 1..Len(Q.stations) :
            \E i \in StationRowIdx : Q.station_state[i].station_id = Q.stations[k].station_id
        /\ \A gid \in segments_tbl :
            Cardinality({i \in SegmentRowIdx : Q.segment_state[i].segment_id = gid}) = 1
        /\ \A i \in SegmentRowIdx :
            LET r == Q.segment_state[i]
                hits == {k \in 1..Len(Q.segments) : Q.segments[k].segment_id = r.segment_id}
            IN  /\ r.segment_id \in segments_tbl
                /\ IF r.state_label = NullLabel THEN hits = {}
                   ELSE /\ Cardinality(hits) = 1
                        /\ \A k \in hits : Q.segments[k].state = r.state_label
        /\ \A k \in 1..Len(Q.segments) :
            \E i \in SegmentRowIdx : Q.segment_state[i].segment_id = Q.segments[k].segment_id

\* one station and one segment excluded, the other station and segment returned
C8_Witness ==
    /\ Asked
    /\ Len(Q.station_state) = 2 /\ Len(Q.stations) = 1
    /\ Len(Q.segment_state) = 2 /\ Len(Q.segments) = 1
    /\ \E i \in StationRowIdx : Q.station_state[i].state_label = NullLabel
    /\ \E i \in SegmentRowIdx : Q.segment_state[i].state_label = NullLabel

----------------------------------------------------------------------------
(* C9, C10: MapView and DatabaseProvider, under SpecApp *)

LatestQuery == Len(queries)

\* C9: whenever a result is written to the displayed stations and segments,
\* it is the result of the most recently issued query, for the year the
\* effect last ran with: a query superseded by a later one is never applied.
C9_OnlyLatestApplied ==
    [][/\ mv_data' # mv_data =>
            /\ mv_data' # NULL
            /\ Val(mv_data').query = LatestQuery
            /\ {<<Val(mv_data').year, FALSE>>} = effectDeps
       /\ \A q \in DOMAIN queries :
            (queries[q].pc # "applied" /\ queries'[q].pc = "applied") =>
                (q = LatestQuery /\ mv_data' # mv_data)]_vars

\* the first query was superseded, resolved and dropped; the second, for the
\* other year, was applied
C9_Witness ==
    /\ Len(queries) >= 2
    /\ queries[1].pc = "dropped"
    /\ queries[1].result.from_store
    /\ queries[2].pc = "applied"
    /\ queries[2].year # queries[1].year
    /\ mv_data # NULL
    /\ Val(mv_data).query = 2

\* C10: after a failed loadData the provider is unavailable (error set,
\* isLoading false), the exposed collections are empty, and no
\* queryDataForYear call returns data read from the store.
C10_FailedLoadLeavesNothing ==
    loadPc = "failed" =>
        /\ error # NULL
        /\ ~isLoading
        /\ exposed = {}
        /\ \A q \in DOMAIN queries :
            queries[q].pc \in {"resolved", "applied", "dropped"} =>
                ~queries[q].result.from_store

----------------------------------------------------------------------------
(* Purity of queryDataForYear over a session *)

\* the calls that returned a result computed by the store
Returned == {q \in DOMAIN queries : queries[q].result.from_store}

\* C11: for the loaded dataset, what a call of queryDataForYear(y) returns is
\* determined by the dataset and y alone: it is the resolution of y over the
\* tables, whatever calls were made before it, whatever calls were in flight
\* while it ran and wherever the year control stood, so two calls for the
\* same year return the same collections
C11_ResultDependsOnYearOnly ==
    /\ \A q \in Returned :
          /\ queries[q].result.stations = stationsForYear(queries[q].year)
          /\ queries[q].result.segments = segmentsForYear(queries[q].year)
    /\ \A q1 \in Returned, q2 \in Returned :
          queries[q1].year = queries[q2].year =>
              queries[q1].result = queries[q2].result

\* two calls for the same year have returned, with a call for another year
\* issued between them, and the year control has moved on since
C11_Witness ==
    \E q1 \in Returned, q3 \in Returned :
        /\ q1 < q3
        /\ queries[q1].year = queries[q3].year
        /\ \E q2 \in DOMAIN queries :
              q1 < q2 /\ q2 < q3 /\ queries[q2].year # queries[q1].year
        /\ queries[q1].result.stations # <<>>

----------------------------------------------------------------------------
(* Events with a malformed date *)

\* C12: an event whose date is malformed is treated as absent: a query over
\* a store that holds such an event still returns a result, not a rejection
C12_MalformedDateIsAbsent ==
    (Asked /\ bad_dates # {}) => ~Q.rejected

----------------------------------------------------------------------------
(* Life of a station over the query years *)

\* the state a station has in the result of the last query; NullLabel when
\* the result does not hold the station
ReturnedState(sid) ==
    LET ks == {k \in 1..Len(Q.stations) : Q.stations[k].station_id = sid}
    IN  IF ks = {} THEN NullLabel ELSE Q.stations[CHOOSE k \in ks : TRUE].state

\* C13: a station with no station_open event and no created_at is planned
\* in every query year, whatever its close events, its electrification
\* events and its current_status
C13_UndatedStationIsPlanned ==
    Asked =>
        \A i \in StationRowIdx :
            LET r == Q.station_state[i]
            IN  (StationEventYears(r.station_id, "station_open") = {}
                 /\ stations_tbl[r.station_id].created_at = NULL) =>
                    /\ r.state_label = "planned"
                    /\ ReturnedState(r.station_id) = "planned"

\* an undated station with status closed, a close event before the query
\* year and an electrification in the query year, returned as planned
C13_Witness ==
    /\ Asked
    /\ \E sid \in DOMAIN stations_tbl :
        /\ StationEventYears(sid, "station_open") = {}
        /\ stations_tbl[sid].created_at = NULL
        /\ stations_tbl[sid].current_status = "closed"
        /\ \E c \in StationEventYears(sid, "station_close") : c < Q.year
        /\ Q.year \in StationEventYears(sid, "electrification")
        /\ ReturnedState(sid) = "planned"

\* the stations with one station_open event, one later station_close event,
\* no electrification event and a current_status other than closed
SimpleLife(sid) ==
    /\ Cardinality(StationEventYears(sid, "station_open")) = 1
    /\ Cardinality(StationEventYears(sid, "station_close")) = 1
    /\ StationEventYears(sid, "electrification") = {}
    /\ stations_tbl[sid].current_status # "closed"
    /\ SetMax(StationEventYears(sid, "station_close"))
           > SetMax(StationEventYears(sid, "station_open"))

\* C14: a station opened in year O and closed in a later year C, never
\* electrified and not marked closed, is planned before O, new in O,
\* existing strictly between O and C, closed in C and not returned after C
C14_SimpleLifeCycle ==
    Asked =>
        \A sid \in LocatedStations :
            SimpleLife(sid) =>
                LET O == SetMax(StationEventYears(sid, "station_open"))
                    C == SetMax(StationEventYears(sid, "station_close"))
                IN  ReturnedState(sid) =
                        IF Q.year < O THEN "planned"
                        ELSE IF Q.year = O THEN "new"
                        ELSE IF Q.year < C THEN "existing"
                        ELSE IF Q.year = C THEN "closed"
                        ELSE NullLabel

\* such a station asked for a year strictly between its opening and closing
C14_Witness ==
    /\ Asked
    /\ \E sid \in LocatedStations :
        /\ SimpleLife(sid)
        /\ Q.year > SetMax(StationEventYears(sid, "station_open"))
        /\ Q.year < SetMax(StationEventYears(sid, "station_close"))
        /\ ReturnedState(sid) = "existing"

----------------------------------------------------------------------------
(* Status override and created_at fallback *)

\* the effective open year of a station for the year of the last query: the
\* latest station_open year at or before it, else the created_at year, else
\* StationOpenDefault
EffectiveOpenAtOrBefore(r) ==
    Coalesce(OpenAtOrBefore(r),
             Coalesce(stations_tbl[r.station_id].created_at, StationOpenDefault))

\* C15: a station whose current_status is closed, whose effective open year
\* is at or before the query year and which has no close event at or before
\* the query year is returned as closed, also in its opening year and in a
\* year with an electrification event
C15_StatusOverride ==
    Asked =>
        \A i \in StationRowIdx :
            LET r == Q.station_state[i]
            IN  (stations_tbl[r.station_id].current_status = "closed"
                 /\ EffectiveOpenAtOrBefore(r) <= Q.year
                 /\ CloseAtOrBefore(r) = NULL) =>
                    ReturnedState(r.station_id) = "closed"

\* C16: a station with no station_open event at or before the query year
\* and with created_at in year C is planned in the years before C and, from
\* C on, is neither planned nor new
C16_CreatedAtFallback ==
    Asked =>
        \A i \in StationRowIdx :
            LET r == Q.station_state[i]
                created == stations_tbl[r.station_id].created_at
            IN  (OpenAtOrBefore(r) = NULL /\ created # NULL) =>
                    IF Q.year < Val(created)
                    THEN ReturnedState(r.station_id) = "planned"
                    ELSE ReturnedState(r.station_id) \notin {"planned", "new"}

----------------------------------------------------------------------------
(* Alternate names *)

\* the records of the argument that have a name and a language
ValidEntries ==
    LET es == Val(names_arg).entries
    IN  {i \in DOMAIN es : es[i].name # NoName /\ es[i].language # NoLanguage}

\* how many valid records of the same language come before record i
EarlierOfLanguage(i) ==
    LET es == Val(names_arg).entries
    IN  Cardinality({j \in ValidEntries : j < i /\ es[j].language = es[i].language})

\* name:<language> for the first record of a language, name:<language>_<k>
\* for the k-th later one
KeyOfEntry(i) ==
    LET es == Val(names_arg).entries
        k == EarlierOfLanguage(i)
    IN  <<"name:">> \o es[i].language \o (IF k = 0 THEN <<>> ELSE <<"_">> \o Decimal(k))

\* C17: buildAltNameMap keys the first record of each language as
\* name:<language> and the k-th later record of that language as
\* name:<language>_<k>, each mapped to the name of that record; the records
\* with a missing name or language give no entry and do not advance the
\* counter of their language
C17_KeysByLanguageOrder ==
    altNames_out # NULL =>
        LET out == Val(altNames_out)
            es == Val(names_arg).entries
        IN  /\ DOMAIN out = {KeyOfEntry(i) : i \in ValidEntries}
            /\ \A i \in ValidEntries : out[KeyOfEntry(i)] = es[i].name

----------------------------------------------------------------------------
(* Geometry *)

\* an element that can be coerced to two finite numbers: an array or a
\* keyed record whose two components are numbers once coerced
Coercible(e) ==
    /\ e.kind \in {"array", "f0f1", "latlon"}
    /\ IsFinite(Number(e.a))
    /\ IsFinite(Number(e.b))

\* C18: for a list input, normalizeGeometry returns exactly the elements
\* that can be coerced to two finite numbers, coerced, in their input
\* order: the other elements are dropped one by one, the coercible ones
\* are all kept, and every component returned is finite
C18_DropsElementsIndividually ==
    (geometry_out # NULL /\ Val(geometry_raw).form = "value"
     /\ Val(geometry_raw).data.kind = "array") =>
        LET out == Val(geometry_out)
            kept == SelectSeq(Val(geometry_raw).data.elems, Coercible)
        IN  /\ ~out.threw
            /\ out.path = [i \in DOMAIN kept |-> <<Number(kept[i].a), Number(kept[i].b)>>]
            /\ \A i \in DOMAIN out.path :
                  IsFinite(out.path[i][1]) /\ IsFinite(out.path[i][2])

\* a list of three elements whose middle one has a component that is no
\* number: the two others are returned, in their order
C18_Witness ==
    /\ geometry_out # NULL
    /\ Val(geometry_raw).form = "value"
    /\ Val(geometry_raw).data.kind = "array"
    /\ LET es == Val(geometry_raw).data.elems
       IN  /\ Len(es) = 3
           /\ Coercible(es[1]) /\ ~Coercible(es[2]) /\ Coercible(es[3])
           /\ es[2].a = "x"
           /\ Val(geometry_out).path = <<<<"1", "2">>, <<"2", "1">>>>

\* the encodings of a path: a list of pairs of numbers, each a 2-element
\* array or a keyed record, or a feature document (a Feature, or a
\* FeatureCollection by its first feature) around a list of 2-element arrays
EncodesPath(raw) ==
    /\ raw.form \in {"value", "text"}
    /\ \A i \in DOMAIN raw.data.elems : raw.data.elems[i] \in GoodElements
    /\ \/ raw.data.kind = "array"
       \/ /\ raw.data.kind = "object"
          /\ \A i \in DOMAIN raw.data.elems : raw.data.elems[i].kind = "array"
          /\ \/ raw.data.type = "Feature" /\ raw.data.geometry = "coordinates"
             \/ raw.data.type = "FeatureCollection" /\ raw.data.feature0 = "coordinates"

\* the coordinates an encoding holds
CoordinatesOf(raw) ==
    [i \in DOMAIN raw.data.elems |-> <<raw.data.elems[i].a, raw.data.elems[i].b>>]

\* C19: normalizeGeometry returns the coordinates of the path, in order,
\* whichever way they are encoded: as a list of 2-element pairs, as a list
\* of f0/f1 or lat/lon records, as a single-feature document, or as the
\* JSON text of one of these; so equal coordinates give equal sequences
C19_SameCoordinatesSameSequence ==
    (geometry_out # NULL /\ EncodesPath(Val(geometry_raw))) =>
        Val(geometry_out) = Returns(CoordinatesOf(Val(geometry_raw)))

\* the JSON text of a list that mixes lat/lon records with other encodings
\* of two different pairs
C19_Witness ==
    /\ geometry_out # NULL
    /\ EncodesPath(Val(geometry_raw))
    /\ Val(geometry_raw).form = "text"
    /\ LET es == Val(geometry_raw).data.elems
       IN  /\ Len(es) = 2
           /\ es[1].kind = "latlon"
           /\ es[2].kind = "f0f1"
    /\ Val(geometry_out).path = <<<<"1", "2">>, <<"2", "1">>>>

\* a document that holds a coordinate list where normalizeGeometry looks
\* for one
HasCoordinates(data) ==
    \/ data.type = "Feature" /\ data.geometry = "coordinates"
    \/ data.type = "FeatureCollection" /\ data.feature0 = "coordinates"
    \/ data.type # "none" /\ data.coordinates = "list"

\* an argument whose top-level shape is not recognized: an empty value, a
\* text that does not parse, a value or text that is neither a list nor an
\* object, an object without a coordinate list where one is looked for
Unrecognized(raw) ==
    \/ raw.form \in {"falsy", "garbage"}
    \/ raw.data.kind = "other"
    \/ raw.data.kind = "object" /\ ~HasCoordinates(raw.data)

\* C20: normalizeGeometry never throws, and for an argument whose top-level
\* shape is not recognized it returns the empty sequence
C20_NeverFails ==
    geometry_out # NULL =>
        /\ ~Val(geometry_out).threw
        /\ Unrecognized(Val(geometry_raw)) => Val(geometry_out).path = <<>>

\* the JSON text of a Feature without geometry, and nothing returned
C20_Witness ==
    /\ geometry_out # NULL
    /\ Val(geometry_raw).form = "text"
    /\ Val(geometry_raw).data.kind = "object"
    /\ Val(geometry_raw).data.type = "Feature"
    /\ Val(geometry_raw).data.geometry = "absent"
    /\ Val(geometry_raw).data.coordinates = "absent"
    /\ Val(geometry_out) = Returns(<<>>)

----------------------------------------------------------------------------
(* Distinct keys of the alternate names *)

\* C24: buildAltNameMap gives every record that has a name and a language
\* a key of its own: the map returned has as many entries as there are such
\* records, so no record overwrites the entry of another
C24_OneKeyPerRecord ==
    altNames_out # NULL =>
        Cardinality(DOMAIN Val(altNames_out)) = Cardinality(ValidEntries)

----------------------------------------------------------------------------
(* Resolution over increasing query years *)

\* the state of a station in a result; NullLabel when the result does not
\* hold the station
StationStateIn(result, sid) ==
    LET ks == {k \in 1..Len(result.stations) : result.stations[k].station_id = sid}
    IN  IF ks = {} THEN NullLabel ELSE result.stations[CHOOSE k \in ks : TRUE].state

\* the state of a segment in a result; NullLabel when the result does not
\* hold the segment
SegmentStateIn(result, gid) ==
    LET ks == {k \in 1..Len(result.segments) : result.segments[k].segment_id = gid}
    IN  IF ks = {} THEN NullLabel ELSE result.segments[CHOOSE k \in ks : TRUE].state

\* from the state of an entity in one year to its state in a later year:
\* excluded stays excluded, not planned stays not planned
Forwards(earlier, later) ==
    /\ earlier = NullLabel => later = NullLabel
    /\ earlier # "planned" => later # "planned"

\* C21: over the same dataset, when a query for a year is followed by a
\* query for a later year, no station and no segment goes backwards: one
\* that was excluded is still excluded, one that was not planned is still
\* not planned
C21_NeverGoesBackwards ==
    [][(lastQuery # NULL /\ lastQuery' # NULL
        /\ Val(lastQuery').year > Val(lastQuery).year) =>
           /\ \A sid \in LocatedStations :
                 Forwards(StationStateIn(Val(lastQuery), sid),
                          StationStateIn(Val(lastQuery'), sid))
           /\ \A gid \in segments_tbl :
                 Forwards(SegmentStateIn(Val(lastQuery), gid),
                          SegmentStateIn(Val(lastQuery'), gid))]_vars

\* the last query does not return a station, or a segment, that the query
\* for the year before did not return either, and that was returned, not
\* planned, for a year before that
C21_Witness ==
    /\ Asked
    /\ \/ \E sid \in LocatedStations :
            /\ StationStateIn(Q, sid) = NullLabel
            /\ StationStateIn(queryResult(Q.year - 1), sid) = NullLabel
            /\ StationStateIn(queryResult(Q.year - 2), sid) \notin {NullLabel, "planned"}
       \/ \E gid \in segments_tbl :
            /\ SegmentStateIn(Q, gid) = NullLabel
            /\ SegmentStateIn(queryResult(Q.year - 1), gid) = NullLabel
            /\ SegmentStateIn(queryResult(Q.year - 2), gid) \notin {NullLabel, "planned"}

----------------------------------------------------------------------------
(* Unmount of the provider *)

\* C23: once DatabaseProvider is unmounted, the connection loadData opened,
\* or opens later, is eventually closed and connectionRef ends up null,
\* and no statement is ever issued on a connection that has been closed
C23_UnmountClosesConnection ==
    /\ [](unmountPc # "mounted" => <>[](connState # "open" /\ connectionRef = NULL))
    /\ [](~closedUse)

----------------------------------------------------------------------------
(* queryDataForYear with and without a connection *)

\* what a call for the year returns when both statements have completed
WholeResult(year) ==
    [from_store |-> TRUE, stations |-> stationsForYear(year),
     segments |-> segmentsForYear(year)]

\* C25: a call made while connectionRef holds no connection resolves at once
\* with empty stations and segments and does not reject; a call made while a
\* connection is held goes on to its statements, and when it resolves it
\* returns both collections of its year: it never resolves with the stations
\* of the first statement alone
C25_EmptyOrWholeOrRejected ==
    [][\A q \in DOMAIN queries' :
          LET call == queries'[q]
          IN  /\ q \notin DOMAIN queries =>
                    IF connectionRef = NULL
                    THEN call.pc = "resolved" /\ call.result = EmptyResult
                    ELSE call.pc = "stations"
              /\ (q \in DOMAIN queries /\ queries[q].pc # "resolved" /\ call.pc = "resolved") =>
                    /\ queries[q].pc = "segments"
                    /\ call.result = WholeResult(call.year)]_vars

\* loadData failed before it connected, and the call MapView then made has
\* resolved with the empty collections and been applied
C25_Witness ==
    /\ connectionRef = NULL
    /\ loadPc = "failed"
    /\ \E q \in DOMAIN queries :
          /\ queries[q].pc = "applied"
          /\ queries[q].result = EmptyResult
          /\ mv_data = {[query |-> q, year |-> queries[q].year, result |-> EmptyResult]}

----------------------------------------------------------------------------
(* The map of a MapView mounted during the load *)

\* C22: when MapView was first mounted while isLoading was true, then once
\* isLoading is false and Leaflet is available the map is eventually created
\* (mapInstanceRef is set) and layers are drawn on it
C22_MapEventuallyCreated ==
    (mountedLoading /\ ~isLoading /\ leaflet) ~> (mapInstanceRef # NULL /\ layers # NULL)

====
